---- MODULE Spec2Model ----
(***************************************************************************)
(* Churn_predict: the risk-monitoring run (churn_app/tasks.py), the        *)
(* Discord alert helpers (churn_app/utils.py), the alert configuration,    *)
(* bulk deletion and CSV import endpoints (churn_app/views.py) and the     *)
(* training command (management/commands/train_churn.py), as a state       *)
(* machine.                                                                *)
(*                                                                         *)
(* Units.  A probability is an integer number of hundredths (0.70 is 70).  *)
(* A risk change is the exact fraction <<num, den>> that the code's float  *)
(* expression ((probability - previous_prob) / previous_prob) * 100        *)
(* denotes: num = (probability - previous_prob) * 100, den = previous_prob.*)
(* den = 0 is the non-finite float numpy yields for a division by 0.0:     *)
(* +inf when num > 0, nan when num = 0.  None is <<>>, a value x that may  *)
(* be None is <<x>>.  Time is in seconds.                                  *)
(***************************************************************************)
EXTENDS Integers, Sequences, FiniteSets, TLC

\* ------------------------------------------------------------------ bounds
NumCustomers == 2
MaxRuns == 2
MaxTime == 61
MaxRows == 3
MaxTrainings == 3

\* ------------------------------------------------------- program constants
RateLimit == 30
WindowSeconds == 60
MaxMessageLen == 2000
max_retries == 3
MaxBulk == 1000

\* ------------------------------------------------------------------ inputs
Procs == {"worker", "web"}
Probs == {0, 50, 85}
MsgLens == {MaxMessageLen, MaxMessageLen + 1}
TickSteps == {30, 31}
ProbeResults == {"ok", "notfound", "error"}

None == <<>>
Some(x) == <<x>>

DefaultSettings ==
    [enabled |-> TRUE, url |-> "valid", high |-> 70, inc |-> 20]

ConfigChoices ==
    { DefaultSettings,
      [enabled |-> TRUE, url |-> "malformed", high |-> 50, inc |-> 70],
      [enabled |-> FALSE, url |-> "valid", high |-> 40, inc |-> 20] }

\* the request threads of the web process
Handlers == {1, 2}

\* who sends a request: nobody signed in, a user who is not staff, a staff user
Users == {"anonymous", "user", "admin"}

\* request.data of a POST to manage_alert_config: a threshold is Some(n),
\* or None when the posted value is not a number
RawData(d) ==
    [enabled |-> d.enabled, url |-> d.url, high |-> Some(d.high), inc |-> Some(d.inc)]

PostedChoices ==
    {RawData(d) : d \in ConfigChoices}
    \cup {[enabled |-> TRUE, url |-> "not_a_url", high |-> Some(50), inc |-> Some(20)],
          [enabled |-> TRUE, url |-> "valid", high |-> None, inc |-> Some(20)]}

\* requests to bulk_delete_customers: the requested ids that some customer
\* has or had, and how many further ids no customer ever had
BulkRequests ==
    {[ids |-> ids, unknown |-> n] :
        ids \in SUBSET (1..NumCustomers), n \in {0, MaxBulk - 1, MaxBulk}}

\* CSV files for import_csv: rows of a customer id, one of them never seen
\* before, and the row's data
CsvIds == 1..(NumCustomers + 1)
Surnames == {"Hill", "Okoro"}
CsvRows == [CustomerId : CsvIds, Surname : Surnames]
CsvFiles == UNION {[1..n -> CsvRows] : n \in 1..MaxRows}

\* test accuracies of a trained model, in hundredths
Accuracies == {0, 80, 85}

VARIABLES
    now,          \* wall clock, seconds
    settings,     \* settings.DISCORD_ALERTS / DISCORD_WEBHOOK_URL of each process
    config,       \* the AlertConfiguration rows, the latest updated last
    history,      \* ChurnRiskHistory rows of each customer, oldest first
    alerts,       \* AlertHistory rows, oldest first
    run,          \* the monitoring run of each process
    runsStarted,  \* number of monitor_customer_churn invocations
    customers,    \* primary keys of the CustomerChurn rows
    http,         \* the HTTP request the last step sent: "none", "GET" or "POST"
    handler,      \* the requests to the web endpoints being served
    surname,      \* the data columns of each CustomerChurn row, "" without a row
    models        \* the files of the models directory, and the trainings so far

vars == <<now, settings, config, history, alerts, run, runsStarted, customers, http,
          handler, surname, models>>

Customers == 1..NumCustomers

\* ----------------------------------------------------------- pure helpers

\* a slip: "previous.churn_probability if previous else 0"
PreviousProbabilityOrZero(h) ==
    IF Len(h) = 0 THEN Some(0) ELSE Some(h[Len(h)].churn_probability)

\* tasks.py:105-106  previous = ...order_by('-timestamp').first()
PreviousProbability(h) ==
    IF Len(h) = 0 THEN None ELSE Some(h[Len(h)].churn_probability)

\* a slip: the change relative to the current probability
RiskChangeOfCurrent(probability, previous_prob) ==
    IF previous_prob = None
    THEN None
    ELSE Some([num |-> (probability - previous_prob[1]) * 100,
               den |-> probability])

\* tasks.py:109-111  no guard on previous_prob = 0
RiskChange(probability, previous_prob) ==
    IF previous_prob = None
    THEN None
    ELSE Some([num |-> (probability - previous_prob[1]) * 100,
               den |-> previous_prob[1]])

\* a float compared with a threshold: x > t
ChangeExceeds(risk_change, t) ==
    IF risk_change[1].den = 0
    THEN risk_change[1].num > 0
    ELSE risk_change[1].num > t * risk_change[1].den

\* a slip: >= for >
IsHighRiskInclusive(probability, s) == probability >= s.high

\* tasks.py:114
IsHighRisk(probability, s) == probability > s.high

\* tasks.py:115-118
HasSignificantIncrease(risk_change, s) ==
    risk_change # None /\ ChangeExceeds(risk_change, s.inc)

\* a slip: the earlier revision of the decision, high risk only
AlertNeededHighOnly(is_high_risk, has_significant_increase) == is_high_risk

\* tasks.py:136
AlertNeeded(is_high_risk, has_significant_increase) ==
    is_high_risk \/ has_significant_increase

\* utils.py:26-35
RecentMessages(log, t) ==
    Cardinality({i \in 1..Len(log) :
        log[i].was_sent /\ log[i].sent_at >= t - WindowSeconds})

\* a slip: > for >=
check_rate_limit_exceeded(log, t) == RecentMessages(log, t) > RateLimit

check_rate_limit(log, t) == RecentMessages(log, t) >= RateLimit

\* a slip: one character more passes
MessageTooLongByTwo(len) == len > MaxMessageLen + 1

\* utils.py:43
MessageTooLong(len) == len > MaxMessageLen

\* utils.py:63, 70
RetryLeft(attempt) == attempt < max_retries - 1

\* utils.py:171
AlertType(probability, s) ==
    IF probability > s.high THEN "HIGH_RISK" ELSE "RISK_INCREASE"

\* a slip: the ENABLED flag is not consulted
AlertsEnabledAlways(s) == TRUE

\* utils.py:82, 192  settings.DISCORD_ALERTS['ENABLED']
AlertsEnabled(s) == s.enabled

\* utils.py:12-16  a string that starts with the Discord webhook prefix
WellFormed(url) == url = "valid"

\* utils.py:12-24  well-formed, and the GET neither answers 404 nor raises
WebhookValid(url, probe) == WellFormed(url) /\ probe = "ok"

\* a slip: the URL is not validated
is_valid_thresholds_only(raw) == raw.high # None /\ raw.inc # None

\* views.py:798, serializers.py:38-43, models.py:37-40  serializer.is_valid():
\* webhook_url is a URLField, the thresholds are FloatFields
is_valid(raw) == raw.url # "not_a_url" /\ raw.high # None /\ raw.inc # None

\* serializer.validated_data
validated_data(raw) ==
    [enabled |-> raw.enabled, url |-> raw.url, high |-> raw.high[1], inc |-> raw.inc[1]]

\* an AlertConfiguration row
ConfigRow(pk, d) ==
    [pk |-> pk, enabled |-> d.enabled, url |-> d.url, high |-> d.high, inc |-> d.inc]

\* the configuration a row holds
RowData(row) ==
    [enabled |-> row.enabled, url |-> row.url, high |-> row.high, inc |-> row.inc]

\* views.py:786  AlertConfiguration.objects.first() under ordering
\* ['-updated_at'] (models.py:44-45): the primary key of the row, 0 for None
First(cfg) == IF cfg = <<>> THEN 0 ELSE cfg[Len(cfg)].pk

\* a slip: get_or_create on a fixed primary key
SavedSingleton(cfg, pk, d) == <<ConfigRow(1, d)>>

\* views.py:793-799  serializer.save(): UPDATE of the instance that was read,
\* INSERT when none was; updated_at = now makes the row the latest
Saved(cfg, pk, d) ==
    IF pk = 0
    THEN Append(cfg, ConfigRow(Len(cfg) + 1, d))
    ELSE Append(SelectSeq(cfg, LAMBDA r : r.pk # pk), ConfigRow(pk, d))

\* a slip: IsAuthenticated for IsAdminUser
IsAuthenticated(user) == user # "anonymous"

\* views.py:779  permissions.IsAdminUser
IsAdminUser(user) == user = "admin"

\* the status of a request that is not permitted: 401 without credentials,
\* 403 for a user who is not staff
DeniedStatus(user) == IF user = "anonymous" THEN 401 ELSE 403

\* ------------------------------------------------------------------- state

\* a request thread: what it serves, and the response it gave last
IdleHandler ==
    [pc |-> "idle", user |-> "", method |-> "", instance |-> 0, raw |-> None,
     status |-> 0, body |-> None]

\* the models directory before the first training
NoModels == [best |-> None, latest |-> None, training_status |-> None, trainings |-> 0]

IdleRun ==
    [pc |-> "idle", id |-> 0, todo |-> <<>>, customer |-> 0,
     probability |-> 0, previous_prob |-> None,
     total_checked |-> 0, high_risk_count |-> 0, significant_increases |-> 0,
     alert_type |-> "", msgLen |-> 0, attempt |-> 0, posts |-> 0, n429 |-> 0,
     failures |-> 0, result |-> ""]

PriorAlert ==
    [customer |-> 1, alert_type |-> "HIGH_RISK", was_sent |-> TRUE,
     error_message |-> "none", sent_at |-> 0, run |-> 0]

Init ==
    /\ now = 0
    /\ settings = [p \in Procs |-> DefaultSettings]
    /\ config = None
    /\ history = [c \in Customers |-> <<>>]
    /\ alerts = [i \in 1..(RateLimit - 1) |-> PriorAlert]
    /\ run = [p \in Procs |-> IdleRun]
    /\ runsStarted = 0
    /\ customers = Customers
    /\ http = "none"
    /\ handler = [k \in Handlers |-> IdleHandler]
    /\ surname = [c \in CsvIds |-> IF c \in Customers THEN "Hill" ELSE ""]
    /\ models = NoModels

\* the customers in primary-key order
RECURSIVE Ascending(_, _)
Ascending(lo, hi) == IF lo > hi THEN <<>> ELSE <<lo>> \o Ascending(lo + 1, hi)

\* a slip: break for continue
NextCustomerAborts(r) ==
    [r EXCEPT !.todo = <<>>, !.pc = "summary",
              !.customer = 0, !.probability = 0, !.previous_prob = None,
              !.alert_type = "", !.msgLen = 0, !.attempt = 0,
              !.posts = 0, !.n429 = 0, !.failures = 0]

\* after a customer is done: the next one, or the summary (tasks.py:57, 150)
NextCustomer(r) ==
    LET rest == Tail(r.todo) IN
    [r EXCEPT !.todo = rest,
              !.pc = IF rest = <<>> THEN "summary" ELSE "score",
              !.customer = 0, !.probability = 0, !.previous_prob = None,
              !.alert_type = "", !.msgLen = 0, !.attempt = 0,
              !.posts = 0, !.n429 = 0, !.failures = 0]

\* a slip: the endpoint without its own check of the model components
TriggerStatusByMessage(result) ==
    IF result = "error" THEN 500 ELSE 200

\* views.py:1055-1087  the status trigger_monitoring answers with
TriggerStatus(result) ==
    IF result = "model_unavailable" THEN 400
    ELSE IF result = "error" THEN 500
    ELSE 200

\* tasks.py:159-161
Completed(r) == [IdleRun EXCEPT !.result = "completed"]

\* a slip: the handler logs and raises again
RunFailedReraises(r) == [r EXCEPT !.pc = "raised"]

\* tasks.py:163-166  return "Error in monitoring: ..."
RunFailed(r) == [IdleRun EXCEPT !.result = "error"]

\* what follows the return of send_discord_alert / send_monitoring_summary
Returned(r) == IF r.pc = "summary" \/ r.alert_type = "SUMMARY"
               THEN Completed(r) ELSE NextCustomer(r)

\* utils.py:95-101, 177-183, 205-211, 243-249  AlertHistory.objects.create
AlertRow(r, type, sent, error, t) ==
    [customer |-> r.customer, alert_type |-> type, was_sent |-> sent,
     error_message |-> error, sent_at |-> t, run |-> r.id]

\* ----------------------------------------------------------------- actions

Tick ==
    /\ \E d \in TickSteps :
        /\ now + d <= MaxTime
        /\ now' = now + d
    /\ UNCHANGED <<settings, config, history, alerts, run, runsStarted, customers,
                 handler, surname, models>>
    /\ http' = "none"

\* views.py:788-810, a POST that validates
ManageAlertConfigPost ==
    /\ \E data \in ConfigChoices :
        /\ config' = Saved(config, First(config), data)
        /\ settings' = [settings EXCEPT !["web"] = data]
    /\ UNCHANGED <<now, history, alerts, run, runsStarted, customers, handler, surname,
                   models>>
    /\ http' = "none"

\* views.py:778-779  a request that is not permitted never enters the view
ConfigDenied(k) ==
    /\ handler[k].pc = "idle"
    /\ \E user \in Users : \E method \in {"GET", "POST"} :
        /\ ~IsAdminUser(user)
        /\ handler' = [handler EXCEPT ![k] =
                [IdleHandler EXCEPT !.user = user, !.method = method,
                                    !.status = DeniedStatus(user)]]
    /\ UNCHANGED <<now, settings, config, history, alerts, run, runsStarted, customers, surname,
                   models>>
    /\ http' = "none"

\* views.py:786, 831-836  GET: the first row serialized, {} when there is none
ConfigGet(k) ==
    /\ handler[k].pc = "idle"
    /\ \E user \in Users :
        /\ IsAdminUser(user)
        /\ handler' = [handler EXCEPT ![k] =
                [IdleHandler EXCEPT !.user = user, !.method = "GET",
                                    !.instance = First(config), !.status = 200,
                                    !.body = IF config = <<>> THEN None
                                             ELSE Some(config[Len(config)])]]
    /\ UNCHANGED <<now, settings, config, history, alerts, run, runsStarted, customers, surname,
                   models>>
    /\ http' = "none"

\* views.py:786-796  POST: the first row is read and the serializer is bound
\* to it, or to no instance
ConfigPostBegin(k) ==
    /\ handler[k].pc = "idle"
    /\ \E user \in Users : \E raw \in PostedChoices :
        /\ IsAdminUser(user)
        /\ handler' = [handler EXCEPT ![k] =
                [IdleHandler EXCEPT !.pc = "save", !.user = user, !.method = "POST",
                                    !.instance = First(config), !.raw = Some(raw)]]
    /\ UNCHANGED <<now, settings, config, history, alerts, run, runsStarted, customers, surname,
                   models>>
    /\ http' = "none"

\* views.py:798-819  is_valid(): save() and the settings of this process are
\* updated, 200 with serializer.data; otherwise 400
ConfigPostSave(k) ==
    /\ handler[k].pc = "save"
    /\ LET h == handler[k]
           raw == h.raw[1]
       IN
       IF is_valid(raw)
       THEN LET cfg == Saved(config, h.instance, validated_data(raw)) IN
            /\ config' = cfg
            /\ settings' = [settings EXCEPT !["web"] = validated_data(raw)]
            /\ handler' = [handler EXCEPT ![k] =
                    [h EXCEPT !.pc = "idle", !.status = 200,
                              !.body = Some(cfg[Len(cfg)])]]
       ELSE /\ handler' = [handler EXCEPT ![k] =
                    [h EXCEPT !.pc = "idle", !.status = 400]]
            /\ UNCHANGED <<config, settings>>
    /\ UNCHANGED <<now, history, alerts, run, runsStarted, customers, surname,
                   models>>
    /\ http' = "none"

\* tasks.py:22-55
StartRun(p) ==
    /\ run[p].pc = "idle"
    /\ runsStarted < MaxRuns
    /\ customers # {}
    /\ runsStarted' = runsStarted + 1
    /\ run' = [run EXCEPT ![p] =
            [IdleRun EXCEPT !.pc = "score", !.id = runsStarted + 1,
                            !.todo = SelectSeq(Ascending(1, NumCustomers),
                                               LAMBDA c : c \in customers)]]
    /\ UNCHANGED <<now, settings, config, history, alerts, customers, handler, surname,
                   models>>
    /\ http' = "none"

\* tasks.py:47-49  "No customers found in database"
StartRunNoCustomers(p) ==
    /\ run[p].pc = "idle"
    /\ runsStarted < MaxRuns
    /\ customers = {}
    /\ runsStarted' = runsStarted + 1
    /\ run' = [run EXCEPT ![p] = [IdleRun EXCEPT !.result = "no_customers"]]
    /\ UNCHANGED <<now, settings, config, history, alerts, customers, handler, surname,
                   models>>
    /\ http' = "none"

\* views.py:360-363  instance.delete(): the rows that reference the customer
\* go with it (on_delete=CASCADE, models.py:23, 57)
DestroyCustomer(c) ==
    /\ c \in customers
    /\ customers' = customers \ {c}
    /\ history' = [history EXCEPT ![c] = <<>>]
    /\ alerts' = SelectSeq(alerts, LAMBDA a : a.customer # c)
    /\ surname' = [surname EXCEPT ![c] = ""]
    /\ UNCHANGED <<now, settings, config, run, runsStarted, handler, models>>
    /\ http' = "none"

\* len(request.data)
RequestLen(req) == Cardinality(req.ids) + req.unknown

\* the rows that reference customer c: ChurnRiskHistory and AlertHistory,
\* both on_delete=CASCADE (models.py:23, 57)
CascadeRows(c) ==
    Len(history[c]) + Cardinality({i \in 1..Len(alerts) : alerts[i].customer = c})

\* QuerySet.delete()[0]: the number of objects deleted, of every model
RECURSIVE DeletedObjects(_)
DeletedObjects(cs) ==
    IF cs = {} THEN 0
    ELSE LET c == CHOOSE x \in cs : TRUE IN
         1 + CascadeRows(c) + DeletedObjects(cs \ {c})

\* views.py:502-555
BulkDelete(k) ==
    /\ handler[k].pc = "idle"
    /\ \E req \in BulkRequests :
        LET answered == [IdleHandler EXCEPT !.user = "admin", !.method = "POST",
                                            !.raw = Some(req)]
            existing == req.ids \cap customers
        IN
        IF RequestLen(req) > MaxBulk
        THEN /\ handler' = [handler EXCEPT ![k] = [answered EXCEPT !.status = 400]]
             /\ UNCHANGED <<customers, history, alerts, surname>>
        ELSE /\ handler' = [handler EXCEPT ![k] =
                    [answered EXCEPT
                        !.status = 200,
                        !.body = Some([deleted_count |-> DeletedObjects(existing),
                                       not_found_count |->
                                            RequestLen(req) - Cardinality(existing)])]]
             /\ customers' = customers \ existing
             /\ history' = [c \in Customers |->
                                IF c \in existing THEN <<>> ELSE history[c]]
             /\ alerts' = SelectSeq(alerts, LAMBDA a : a.customer \notin existing)
             /\ surname' = [c \in CsvIds |-> IF c \in existing THEN "" ELSE surname[c]]
    /\ UNCHANGED <<now, settings, config, run, runsStarted, models>>
    /\ http' = "none"

\* views.py:718-751  the loop over the rows inside the transaction: an
\* existing customer is saved or skipped, a new one is put aside
RECURSIVE ImportLoop(_, _, _, _)
ImportLoop(rows, update_existing, existing, names) ==
    IF rows = <<>>
    THEN [names |-> names, records |-> <<>>, created |-> 0, updated |-> 0, skipped |-> 0]
    ELSE LET row == Head(rows)
             exists == row.CustomerId \in existing
             saved == IF exists /\ update_existing
                      THEN [names EXCEPT ![row.CustomerId] = row.Surname]
                      ELSE names
             rest == ImportLoop(Tail(rows), update_existing, existing, saved)
         IN [names |-> rest.names,
             records |-> (IF exists THEN <<>> ELSE <<row>>) \o rest.records,
             created |-> rest.created + (IF exists THEN 0 ELSE 1),
             updated |-> rest.updated + (IF exists /\ update_existing THEN 1 ELSE 0),
             skipped |-> rest.skipped + (IF exists /\ ~update_existing THEN 1 ELSE 0)]

\* views.py:754-755, models.py:4  bulk_create raises IntegrityError when two
\* records have the same primary key
BulkCreateRaises(records) ==
    \E i, j \in 1..Len(records) :
        i < j /\ records[i].CustomerId = records[j].CustomerId

\* a slip: the loop outside transaction.atomic()
RolledBackNothing(before, inside) == inside

\* views.py:717  an exception leaves the atomic block: the table is as
\* before
RolledBack(before, inside) == before

\* views.py:754-755  the rows bulk_create inserts
Inserted(names, records) ==
    [c \in CsvIds |->
        IF \E i \in 1..Len(records) : records[i].CustomerId = c
        THEN (CHOOSE r \in {records[i] : i \in 1..Len(records)} : r.CustomerId = c).Surname
        ELSE names[c]]

\* the response has gone out and the thread is free for the next request
ResponseSent(k) ==
    /\ handler[k].pc = "idle"
    /\ handler[k] # IdleHandler
    /\ handler' = [handler EXCEPT ![k] = IdleHandler]
    /\ UNCHANGED <<now, settings, config, history, alerts, run, runsStarted, customers,
                   surname, models>>
    /\ http' = "none"

\* views.py:677-776
ImportCsv(k) ==
    /\ handler[k].pc = "idle"
    /\ \E rows \in CsvFiles : \E update_existing \in BOOLEAN :
        LET loop == ImportLoop(rows, update_existing, customers, surname)
            answered == [IdleHandler EXCEPT
                            !.user = "admin", !.method = "POST",
                            !.raw = Some([rows |-> rows,
                                          update_existing |-> update_existing])]
        IN
        IF BulkCreateRaises(loop.records)
        THEN /\ surname' = RolledBack(surname, loop.names)
             /\ customers' = customers
             /\ handler' = [handler EXCEPT ![k] = [answered EXCEPT !.status = 400]]
        ELSE /\ surname' = Inserted(loop.names, loop.records)
             /\ customers' = customers \cup
                    {loop.records[i].CustomerId : i \in 1..Len(loop.records)}
             /\ handler' = [handler EXCEPT ![k] =
                    [answered EXCEPT
                        !.status = 200,
                        !.body = Some([created |-> loop.created,
                                       updated |-> loop.updated,
                                       skipped |-> loop.skipped])]]
    /\ UNCHANGED <<now, settings, config, history, alerts, run, runsStarted, models>>
    /\ http' = "none"

\* train_churn.py:30-38  the test accuracy of best_metrics.json, 0 without
\* the file
best_test_accuracy(m) == IF m.best = None THEN 0 ELSE m.best[1].test_accuracy

\* a slip: >= for >
IsBetterOrEqual(test_accuracy, best) == test_accuracy >= best

\* train_churn.py:193, 253
IsBetter(test_accuracy, best) == test_accuracy > best

\* train_churn.py:184-197  the latest model and metrics are written, and the
\* best ones if the model is better
SavedModels(m, test_accuracy) ==
    LET fitted == Some([model |-> m.trainings + 1, test_accuracy |-> test_accuracy]) IN
    [m EXCEPT !.latest = fitted,
              !.best = IF IsBetter(test_accuracy, best_test_accuracy(m))
                       THEN fitted ELSE @,
              !.trainings = @ + 1]

\* train_churn.py:23-258  a training that runs to its end
TrainChurn ==
    /\ models.trainings < MaxTrainings
    /\ \E test_accuracy \in Accuracies :
        models' = [SavedModels(models, test_accuracy) EXCEPT
            !.training_status =
                Some([is_best |-> IsBetter(test_accuracy, best_test_accuracy(models)),
                      previous_best |-> best_test_accuracy(models),
                      training |-> models.trainings + 1])]
    /\ UNCHANGED <<now, settings, config, history, alerts, run, runsStarted, customers,
                   handler, surname>>
    /\ http' = "none"

\* train_churn.py:199-249  the MLflow logging or the plot raises after the
\* files were saved: training_status.json is not written
TrainChurnLoggingRaises ==
    /\ models.trainings < MaxTrainings
    /\ \E test_accuracy \in Accuracies :
        models' = SavedModels(models, test_accuracy)
    /\ UNCHANGED <<now, settings, config, history, alerts, run, runsStarted, customers,
                   handler, surname>>
    /\ http' = "none"

\* train_churn.py:40-182  the database, the preprocessing or the fit raises:
\* no file is written
TrainChurnFails ==
    /\ models.trainings < MaxTrainings
    /\ models' = [models EXCEPT !.trainings = @ + 1]
    /\ UNCHANGED <<now, settings, config, history, alerts, run, runsStarted, customers,
                   handler, surname>>
    /\ http' = "none"

\* tasks.py:26-30, views.py:1055-1063  get_model_components() returns
\* nothing: the task returns its message, the endpoint answers at once
StartRunNoModel(p) ==
    /\ run[p].pc = "idle"
    /\ runsStarted < MaxRuns
    /\ runsStarted' = runsStarted + 1
    /\ run' = [run EXCEPT ![p] = [IdleRun EXCEPT !.result = "model_unavailable"]]
    /\ UNCHANGED <<now, settings, config, history, alerts, customers, handler, surname,
                   models>>
    /\ http' = "none"

\* tasks.py:59-106, scoring succeeds and the previous snapshot is read
Score(p, probs) ==
    /\ run[p].pc = "score"
    /\ \E probability \in probs :
        LET c == Head(run[p].todo) IN
        run' = [run EXCEPT ![p] =
            [@ EXCEPT !.pc = "write", !.customer = c,
                      !.total_checked = @ + 1,
                      !.probability = probability,
                      !.previous_prob = PreviousProbability(history[c])]]
    /\ UNCHANGED <<now, settings, config, history, alerts, runsStarted, customers,
                 handler, surname, models>>
    /\ http' = "none"

\* tasks.py:59-102, encoding, scaling or prediction raises: continue
ScoreFails(p) ==
    /\ run[p].pc = "score"
    /\ run' = [run EXCEPT ![p] =
            NextCustomer([@ EXCEPT !.total_checked = @ + 1,
                                   !.customer = Head(run[p].todo)])]
    /\ UNCHANGED <<now, settings, config, history, alerts, runsStarted, customers,
                 handler, surname, models>>
    /\ http' = "none"

\* tasks.py:57, 151-166  an exception outside the per-customer try block:
\* the query that fetches the customers when the loop is entered, or
\* send_monitoring_summary, raises
RunRaises(p) ==
    /\ \/ run[p].pc = "score" /\ run[p].total_checked = 0
       \/ run[p].pc = "summary"
    /\ run' = [run EXCEPT ![p] = RunFailed(@)]
    /\ UNCHANGED <<now, settings, config, history, alerts, runsStarted, customers,
                 handler, surname, models>>
    /\ http' = "none"

\* a slip: update_or_create, the customer's latest row is overwritten
WriteSnapshotInPlace(p) ==
    /\ run[p].pc = "write"
    /\ run[p].customer \in customers
    /\ LET r == run[p]
           s == settings[p]
           risk_change == RiskChange(r.probability, r.previous_prob)
           is_high_risk == IsHighRisk(r.probability, s)
           has_significant_increase == HasSignificantIncrease(risk_change, s)
           row == [churn_probability |-> r.probability,
                   previous_probability |-> r.previous_prob,
                   risk_change |-> risk_change,
                   is_high_risk |-> is_high_risk,
                   run |-> r.id]
           h == history[r.customer]
       IN
       /\ history' = [history EXCEPT ![r.customer] =
            IF h = <<>> THEN <<row>> ELSE [h EXCEPT ![Len(h)] = row]]
       /\ run' = [run EXCEPT ![p] =
            IF AlertNeeded(is_high_risk, has_significant_increase)
            THEN [r EXCEPT !.pc = "alert"]
            ELSE NextCustomer(r)]
    /\ UNCHANGED <<now, settings, config, alerts, runsStarted, customers, handler, surname,
                   models>>
    /\ http' = "none"

\* tasks.py:108-136
WriteSnapshot(p) ==
    /\ run[p].pc = "write"
    /\ run[p].customer \in customers
    /\ LET r == run[p]
           s == settings[p]
           risk_change == RiskChange(r.probability, r.previous_prob)
           is_high_risk == IsHighRisk(r.probability, s)
           has_significant_increase == HasSignificantIncrease(risk_change, s)
           row == [churn_probability |-> r.probability,
                   previous_probability |-> r.previous_prob,
                   risk_change |-> risk_change,
                   is_high_risk |-> is_high_risk,
                   run |-> r.id]
           counted == [r EXCEPT
                   !.high_risk_count = IF is_high_risk THEN @ + 1 ELSE @,
                   !.significant_increases =
                        IF has_significant_increase THEN @ + 1 ELSE @]
       IN
       /\ history' = [history EXCEPT ![r.customer] = Append(@, row)]
       /\ run' = [run EXCEPT ![p] =
            IF AlertNeeded(is_high_risk, has_significant_increase)
            THEN [counted EXCEPT !.pc = "alert"]
            ELSE NextCustomer(counted)]
    /\ UNCHANGED <<now, settings, config, alerts, runsStarted, customers, handler, surname,
                   models>>
    /\ http' = "none"

\* tasks.py:113-133, 146-148  the customer was deleted after the run fetched
\* the customers: the counters are updated (121-124), then
\* ChurnRiskHistory.objects.create raises IntegrityError, which the handler
\* of the customer's try block prints before the loop continues
WriteSnapshotFails(p) ==
    /\ run[p].pc = "write"
    /\ run[p].customer \notin customers
    /\ LET r == run[p]
           s == settings[p]
           risk_change == RiskChange(r.probability, r.previous_prob)
           is_high_risk == IsHighRisk(r.probability, s)
           has_significant_increase == HasSignificantIncrease(risk_change, s)
           counted == [r EXCEPT
                   !.high_risk_count = IF is_high_risk THEN @ + 1 ELSE @,
                   !.significant_increases =
                        IF has_significant_increase THEN @ + 1 ELSE @]
       IN
       run' = [run EXCEPT ![p] = NextCustomer(counted)]
    /\ UNCHANGED <<now, settings, config, history, alerts, runsStarted, customers,
                 handler, surname, models>>
    /\ http' = "none"

\* utils.py:81-83, 191-193  alerts disabled: return False
SendDisabled(p) ==
    /\ run[p].pc \in {"alert", "summary"}
    /\ ~AlertsEnabled(settings[p])
    /\ run' = [run EXCEPT ![p] = Returned(@)]
    /\ UNCHANGED <<now, settings, config, history, alerts, runsStarted, customers,
                 handler, surname, models>>
    /\ http' = "none"

\* utils.py:85-89, 195-199  the webhook does not validate: return False
SendInvalidWebhook(p) ==
    /\ run[p].pc \in {"alert", "summary"}
    /\ AlertsEnabled(settings[p])
    /\ \E probe \in ProbeResults : ~WebhookValid(settings[p].url, probe)
    /\ http' = IF WellFormed(settings[p].url) THEN "GET" ELSE "none"
    /\ run' = [run EXCEPT ![p] = Returned(@)]
    /\ UNCHANGED <<now, settings, config, history, alerts, runsStarted, customers,
                 handler, surname, models>>

\* utils.py:91-102, 201-212  rate limit reached: a failed row, return False
SendRateLimited(p) ==
    /\ run[p].pc \in {"alert", "summary"}
    /\ AlertsEnabled(settings[p])
    /\ WebhookValid(settings[p].url, "ok")
    /\ check_rate_limit(alerts, now)
    /\ alerts' = Append(alerts,
            AlertRow(run[p], IF run[p].pc = "alert" THEN "HIGH_RISK" ELSE "SUMMARY",
                     FALSE, "rate_limit", now))
    /\ run' = [run EXCEPT ![p] = Returned(@)]
    /\ UNCHANGED <<now, settings, config, history, runsStarted, customers, handler, surname,
                   models>>
    /\ http' = "GET"

\* utils.py:156-163  float(customer.balance) raises on a null balance; the
\* exception leaves send_discord_alert and is caught at tasks.py:146-148
SendFormatRaises(p) ==
    /\ run[p].pc = "alert"
    /\ AlertsEnabled(settings[p])
    /\ WebhookValid(settings[p].url, "ok")
    /\ ~check_rate_limit(alerts, now)
    /\ run' = [run EXCEPT ![p] = NextCustomer(@)]
    /\ UNCHANGED <<now, settings, config, history, alerts, runsStarted, customers,
                 handler, surname, models>>
    /\ http' = "GET"

\* utils.py:104-174, 214-240  the message is built and handed to send_discord_message
SendBuild(p, lens) ==
    /\ run[p].pc \in {"alert", "summary"}
    /\ AlertsEnabled(settings[p])
    /\ WebhookValid(settings[p].url, "ok")
    /\ ~check_rate_limit(alerts, now)
    /\ \E len \in lens :
        run' = [run EXCEPT ![p] =
            [@ EXCEPT !.pc = "post",
                      !.alert_type = IF run[p].pc = "alert"
                                     THEN AlertType(run[p].probability, settings[p])
                                     ELSE "SUMMARY",
                      !.msgLen = len, !.attempt = 0, !.posts = 0, !.n429 = 0,
                      !.failures = 0]]
    /\ UNCHANGED <<now, settings, config, history, alerts, runsStarted, customers,
                 handler, surname, models>>
    /\ http' = "GET"

\* a slip: a failed delivery raised to the handler at tasks.py:163-166
RecordRaises(p, r, success, error) ==
    /\ alerts' = Append(alerts, AlertRow(r, r.alert_type, success, error, now))
    /\ run' = [run EXCEPT ![p] =
            IF success THEN Returned(r) ELSE [IdleRun EXCEPT !.result = "error"]]

\* send_discord_message returns (success, error); the caller writes the row
\* (utils.py:174-185, 240-251)
Record(p, r, success, error) ==
    /\ alerts' = Append(alerts, AlertRow(r, r.alert_type, success, error, now))
    /\ run' = [run EXCEPT ![p] = Returned(r)]

\* utils.py:41-44
PostTooLong(p) ==
    /\ run[p].pc = "post"
    /\ run[p].attempt = 0 /\ run[p].posts = 0
    /\ MessageTooLong(run[p].msgLen)
    /\ Record(p, run[p], FALSE, "size")
    /\ UNCHANGED <<now, settings, config, history, runsStarted, customers, handler, surname,
                   models>>
    /\ http' = "none"

\* a slip: range(max_retries + 1)
CanPostOnceMore(p) ==
    /\ run[p].pc = "post"
    /\ ~MessageTooLong(run[p].msgLen)
    /\ run[p].attempt <= max_retries

\* one pass of the loop at utils.py:46-73 is possible
CanPost(p) ==
    /\ run[p].pc = "post"
    /\ ~MessageTooLong(run[p].msgLen)
    /\ run[p].attempt < max_retries

\* utils.py:48-56  204: return True, None
PostDelivered(p) ==
    /\ CanPost(p)
    /\ Record(p, [run[p] EXCEPT !.posts = @ + 1], TRUE, "none")
    /\ UNCHANGED <<now, settings, config, history, runsStarted, customers, handler, surname,
                   models>>
    /\ http' = "POST"

\* a 429 that does not use up an attempt, as a while loop would have it
PostRateLimitedUncounted(p) ==
    /\ CanPost(p)
    /\ run' = [run EXCEPT ![p] = [@ EXCEPT !.posts = @ + 1, !.n429 = @ + 1]]
    /\ UNCHANGED <<now, settings, config, history, alerts, runsStarted, customers,
                 handler, surname, models>>
    /\ http' = "POST"

\* utils.py:57-60  429: sleep(Retry-After), continue
PostRateLimited(p) ==
    /\ CanPost(p)
    /\ run' = [run EXCEPT ![p] =
            [@ EXCEPT !.posts = @ + 1, !.n429 = @ + 1, !.attempt = @ + 1]]
    /\ UNCHANGED <<now, settings, config, history, alerts, runsStarted, customers,
                 handler, surname, models>>
    /\ http' = "POST"

\* utils.py:46, 75  the loop has run out: return False, "Max retries exceeded"
PostLoopEnds(p) ==
    /\ run[p].pc = "post"
    /\ ~MessageTooLong(run[p].msgLen)
    /\ ~CanPost(p)
    /\ Record(p, run[p], FALSE, "max_retries")
    /\ UNCHANGED <<now, settings, config, history, runsStarted, customers, handler, surname,
                   models>>
    /\ http' = "none"

\* utils.py:61-73  another status, or requests.post raises
PostFails(p) ==
    /\ CanPost(p)
    /\ \E error \in {"status", "exception"} :
        LET r == [run[p] EXCEPT !.posts = @ + 1, !.failures = @ + 1] IN
        IF RetryLeft(run[p].attempt)
        THEN run' = [run EXCEPT ![p] = [r EXCEPT !.attempt = @ + 1]]
             /\ UNCHANGED alerts
        ELSE Record(p, r, FALSE, error)
    /\ UNCHANGED <<now, settings, config, history, runsStarted, customers, handler, surname,
                   models>>
    /\ http' = "POST"

\* no other process is inside a monitoring run
Alone(p) == \A q \in Procs \ {p} : run[q].pc = "idle"

\* Monitoring runs, one at a time, started by the beat schedule in the worker
\* or by trigger_monitoring in the web process, with configuration writes at
\* any moment; the webhook answers every POST with 204.
Next ==
    \/ ManageAlertConfigPost
    \/ \E p \in Procs : Alone(p) /\ StartRun(p)
    \/ \E p \in Procs : Score(p, Probs)
    \/ \E p \in Procs : ScoreFails(p)
    \/ \E p \in Procs : WriteSnapshot(p)
    \/ \E p \in Procs : SendDisabled(p)
    \/ \E p \in Procs : SendInvalidWebhook(p)
    \/ \E p \in Procs : SendRateLimited(p)
    \/ \E p \in Procs : SendFormatRaises(p)
    \/ \E p \in Procs : SendBuild(p, {MaxMessageLen})
    \/ \E p \in Procs : PostDelivered(p)

Spec == Init /\ [][Next]_vars

\* Runs of one process against every behaviour of the webhook; every
\* customer scores 0.85.
NextSend ==
    \/ StartRun("web")
    \/ Score("web", {85})
    \/ WriteSnapshot("web")
    \/ SendInvalidWebhook("web")
    \/ SendRateLimited("web")
    \/ SendBuild("web", MsgLens)
    \/ PostTooLong("web")
    \/ PostDelivered("web")
    \/ PostRateLimited("web")
    \/ PostFails("web")
    \/ PostLoopEnds("web")

SpecSend == Init /\ [][NextSend]_vars

\* The rate limiter with the clock advancing: the worker's runs, one after
\* the other, every customer scores 0.85, a POST is delivered or fails.
NextRate ==
    \/ Tick
    \/ StartRun("worker")
    \/ Score("worker", {85})
    \/ WriteSnapshot("worker")
    \/ SendRateLimited("worker")
    \/ SendBuild("worker", {MaxMessageLen})
    \/ PostDelivered("worker")
    \/ PostFails("worker")

SpecRate == Init /\ [][NextRate]_vars

\* Two monitoring runs at the same time: the beat schedule's in the worker
\* and a triggered one in the web process.
NextConcurrent ==
    \/ \E p \in Procs : StartRun(p)
    \/ \E p \in Procs : StartRunNoModel(p)
    \/ \E p \in Procs : Score(p, {50, 85})
    \/ \E p \in Procs : WriteSnapshot(p)
    \/ \E p \in Procs : SendRateLimited(p)
    \/ \E p \in Procs : SendBuild(p, {MaxMessageLen})
    \/ \E p \in Procs : PostDelivered(p)

SpecConcurrent == Init /\ [][NextConcurrent]_vars

\* The worker's runs with customers deleted through the API between them.
NextDelete ==
    \/ \E c \in Customers : Alone("web") /\ DestroyCustomer(c)
    \/ StartRun("worker")
    \/ StartRunNoCustomers("worker")
    \/ Score("worker", {50, 85})
    \/ WriteSnapshot("worker")
    \/ SendRateLimited("worker")
    \/ SendBuild("worker", {MaxMessageLen})
    \/ PostDelivered("worker")
    \/ PostFails("worker")

SpecDelete == Init /\ [][NextDelete]_vars

\* The worker's runs over customers that score 0.30, 0.50 or 0.85, under
\* the default thresholds 0.7 and 20.
NextKinds ==
    \/ StartRun("worker")
    \/ Score("worker", {30, 50, 85})
    \/ WriteSnapshot("worker")
    \/ SendRateLimited("worker")
    \/ SendBuild("worker", {MaxMessageLen})
    \/ PostDelivered("worker")
    \/ PostFails("worker")

SpecKinds == Init /\ [][NextKinds]_vars

\* The worker's runs with customers deleted through the API while a
\* customer is being scored.
NextCount ==
    \/ \E c \in Customers :
            run["worker"].pc \in {"score", "write"} /\ DestroyCustomer(c)
    \/ StartRun("worker")
    \/ Score("worker", {50, 85})
    \/ WriteSnapshot("worker")
    \/ WriteSnapshotFails("worker")
    \/ SendRateLimited("worker")
    \/ SendBuild("worker", {MaxMessageLen})
    \/ PostDelivered("worker")

SpecCount == Init /\ [][NextCount]_vars

\* Bulk deletions between the worker's runs.
NextBulk ==
    \/ Alone("web") /\ BulkDelete(1)
    \/ StartRun("worker")
    \/ StartRunNoCustomers("worker")
    \/ Score("worker", {50, 85})
    \/ WriteSnapshot("worker")
    \/ SendRateLimited("worker")
    \/ SendBuild("worker", {MaxMessageLen})
    \/ PostDelivered("worker")

SpecBulk == Init /\ [][NextBulk]_vars

\* CSV imports, one request after the other, with customers deleted
\* through the API between them.
NextImport ==
    \/ handler[1] = IdleHandler /\ ImportCsv(1)
    \/ ResponseSent(1)
    \/ \E c \in Customers : DestroyCustomer(c)

SpecImport == Init /\ [][NextImport]_vars

\* Trainings, one after the other.
NextTrain ==
    \/ TrainChurn
    \/ TrainChurnLoggingRaises
    \/ TrainChurnFails

SpecTrain == Init /\ [][NextTrain]_vars

\* what a process inside a monitoring run can do next, with every failure
\* the run can meet
RunStep(p) ==
    \/ Score(p, {85})
    \/ ScoreFails(p)
    \/ RunRaises(p)
    \/ WriteSnapshot(p)
    \/ SendInvalidWebhook(p)
    \/ SendRateLimited(p)
    \/ SendBuild(p, {MaxMessageLen})
    \/ PostDelivered(p)
    \/ PostRateLimited(p)
    \/ PostFails(p)
    \/ PostLoopEnds(p)

\* Runs of the worker and of the web process, one at a time. A process
\* that is inside a run goes on executing it: every call the run makes
\* returns or raises (requests.get and requests.post are given timeouts,
\* utils.py:19, 53), so a step of the run that stays possible is taken.
NextFair ==
    \/ \E p \in Procs : Alone(p) /\ StartRun(p)
    \/ \E p \in Procs : Alone(p) /\ StartRunNoModel(p)
    \/ \E p \in Procs : RunStep(p)

SpecFair == Init /\ [][NextFair]_vars /\ \A p \in Procs : WF_vars(RunStep(p))

\* The configuration endpoint served by two request threads.
NextConfig ==
    \/ \E k \in Handlers : ConfigDenied(k)
    \/ \E k \in Handlers : ConfigGet(k)
    \/ \E k \in Handlers : ConfigPostBegin(k)
    \/ \E k \in Handlers : ConfigPostSave(k)

SpecConfig == Init /\ [][NextConfig]_vars

\* ------------------------------------------------------------------ claims

\* the row a WriteSnapshot step of p appends
NewRow(p) == history'[run[p].customer][Len(history'[run[p].customer])]

Writes(p) == run[p].pc = "write" /\ run'[p] # run[p]

\* C1: send_discord_alert is entered for a customer exactly when the row
\* just written for it is high-risk or its risk change is not null and
\* greater than the risk-increase threshold; nothing else enters it.
C1_AlertIffRisk ==
    [][\A p \in Procs :
        /\ Writes(p) =>
              ((run'[p].pc = "alert") <=>
                  \/ NewRow(p).is_high_risk
                  \/ /\ NewRow(p).risk_change # None
                     /\ ChangeExceeds(NewRow(p).risk_change, settings[p].inc))
        /\ (run'[p].pc = "alert" /\ run[p].pc # "alert") => Writes(p)
        /\ (run'[p].pc = "post" /\ run[p].pc # "post" /\ run'[p].customer # 0)
              => run[p].pc = "alert"]_vars

\* an alert is about to be sent for a row that is not high-risk
C1_Witness ==
    \E p \in Procs :
        /\ run[p].pc = "alert"
        /\ ~history[run[p].customer][Len(history[run[p].customer])].is_high_risk

\* C2: every row a run writes has is_high_risk true exactly when its
\* probability is strictly greater than the HIGH_RISK_THRESHOLD the writing
\* process holds at that moment, and rows are written by nothing else.
C2_HighRiskIffAboveThreshold ==
    [][/\ \A p \in Procs :
            Writes(p) =>
                /\ NewRow(p).churn_probability = run[p].probability
                /\ NewRow(p).is_high_risk <=>
                       NewRow(p).churn_probability > settings[p].high
       /\ history' # history => \E p \in Procs : Writes(p)]_vars

\* two rows of one probability, one high-risk and one not: the threshold
\* changed between them
C2_Witness ==
    \E c \in Customers : \E i, j \in 1..Len(history[c]) :
        /\ history[c][i].churn_probability = history[c][j].churn_probability
        /\ history[c][i].is_high_risk
        /\ ~history[c][j].is_high_risk

\* C3: the first row of every customer has previous_probability and
\* risk_change null.
C3_FirstSnapshotNull ==
    \A c \in Customers :
        Len(history[c]) >= 1 =>
            /\ history[c][1].previous_probability = None
            /\ history[c][1].risk_change = None

C3_Witness == \E c \in Customers : Len(history[c]) >= 2

\* C4: a row written after a row of non-zero probability p stores
\* previous_probability = p and risk_change = (c - p) / p * 100.
C4_RiskChangeFormula ==
    \A c \in Customers : \A i \in 2..Len(history[c]) :
        LET prev == history[c][i - 1].churn_probability
            row == history[c][i]
        IN prev # 0 =>
            /\ row.previous_probability = Some(prev)
            /\ row.risk_change # None
            /\ row.risk_change[1].den # 0
            /\ row.risk_change[1].num * prev =
                  (row.churn_probability - prev) * 100 * row.risk_change[1].den

C4_Witness ==
    \E c \in Customers :
        /\ Len(history[c]) >= 2
        /\ history[c][1].churn_probability = 50
        /\ history[c][2].churn_probability = 85

\* C5: a row written after a row of probability zero has risk_change null.
C5_ZeroPreviousGuarded ==
    \A c \in Customers : \A i \in 2..Len(history[c]) :
        history[c][i - 1].churn_probability = 0 =>
            history[c][i].risk_change = None

\* rows counted by a window of WindowSeconds that starts at a
SentInWindow(a) ==
    Cardinality({i \in 1..Len(alerts) :
        alerts[i].was_sent /\ alerts[i].sent_at >= a
                           /\ alerts[i].sent_at <= a + WindowSeconds})

\* C6: no window of 60 seconds holds more than 30 rows with was_sent true.
C6_AtMostThirtyPerWindow ==
    \A a \in 0..MaxTime : SentInWindow(a) <= RateLimit

Gate(p) == run[p].pc \in {"alert", "summary"} /\ run'[p] # run[p]

Rejection(row) == ~row.was_sent /\ row.error_message = "rate_limit"

\* C7, as amended: an attempt made while 30 rows with was_sent true lie in
\* the last 60 seconds is rejected: a failed row with the rate-limit
\* error is appended and no POST is made; with fewer, it is not rejected.
C7_RejectedAtThirtySent ==
    [][\A p \in Procs :
        Gate(p) =>
            IF RecentMessages(alerts, now) >= RateLimit
            THEN /\ Len(alerts') = Len(alerts) + 1
                 /\ Rejection(alerts'[Len(alerts')])
                 /\ alerts'[Len(alerts')].sent_at = now
                 /\ run'[p].pc # "post"
                 /\ run'[p].posts = 0
            ELSE /\ alerts' = alerts
                 /\ run'[p].pc = "post"]_vars

\* a rejection exists beside a row sent after the prior ones left the window
C7_Witness ==
    /\ \E i \in 1..Len(alerts) : Rejection(alerts[i])
    /\ \E i \in 1..Len(alerts) : alerts[i].was_sent /\ alerts[i].sent_at > WindowSeconds

\* rows written in the 60 seconds before row i
AttemptsBefore(i) ==
    Cardinality({j \in 1..(i - 1) :
        alerts[j].sent_at >= alerts[i].sent_at - WindowSeconds})

\* C7, as claimed: the 31st attempt within 60 seconds is rejected.
C7_ThirtyFirstAttemptRejected ==
    \A i \in 1..Len(alerts) :
        AttemptsBefore(i) >= RateLimit => Rejection(alerts[i])

\* a step in which send_discord_message returns to its caller, which
\* appends the row
Returns(p) == run[p].pc = "post" /\ run'[p].pc # "post"

Row == alerts'[Len(alerts')]

\* the POSTs, the 429 responses and the other failed attempts of the call
\* that returns, the last POST included
PostsMade(p) == run[p].posts + (IF Row.was_sent THEN 1 ELSE 0)
                   + (IF Row.error_message \in {"status", "exception"} THEN 1 ELSE 0)

FailuresMade(p) == run[p].failures
                   + (IF Row.error_message \in {"status", "exception"} THEN 1 ELSE 0)

DeliveryFailed(row) == row.error_message \in {"status", "exception", "max_retries"}

C9_AtMostThreePosts ==
    [][\A p \in Procs :
        /\ run'[p].posts <= max_retries
        /\ Returns(p) =>
              /\ PostsMade(p) <= max_retries
              /\ Row.was_sent <=> Row.error_message = "none"
              /\ Row.error_message \in {"status", "exception"} =>
                    PostsMade(p) = max_retries]_vars

\* a call is about to make its third POST, and a call has failed
C9_Witness ==
    /\ \E p \in Procs : run[p].pc = "post" /\ run[p].posts = max_retries - 1
    /\ \E i \in 1..Len(alerts) : alerts[i].error_message = "status"

\* C10: a message longer than 2000 characters is never POSTed, and the
\* call still leaves a row with was_sent false.
C10_TooLongNeverPosted ==
    [][\A p \in Procs :
        (run[p].pc = "post" /\ run[p].msgLen > MaxMessageLen) =>
            /\ run[p].posts = 0
            /\ run'[p] # run[p] =>
                  /\ Returns(p)
                  /\ Len(alerts') = Len(alerts) + 1
                  /\ ~Row.was_sent
                  /\ Row.error_message = "size"
                  /\ Row.customer = run[p].customer]_vars

\* the row of a message that was too long
C10_Witness ==
    \E i \in 1..Len(alerts) : alerts[i].error_message = "size"

\* a step in which p's call of send_discord_alert ends
AlertCallEnds(p) ==
    /\ run[p].customer # 0
    /\ run[p].pc \in {"alert", "post"}
    /\ run'[p].pc \notin {"alert", "post"}

\* C11: with alerting enabled, every call of send_discord_alert creates
\* exactly one AlertHistory row for its customer, whatever its outcome, a
\* failed validation of the webhook included.
C11_OneRecordPerAttempt ==
    [][\A p \in Procs :
        /\ (AlertCallEnds(p) /\ (settings[p].enabled \/ run[p].pc = "post")) =>
              /\ Len(alerts') = Len(alerts) + 1
              /\ Row.customer = run[p].customer
        /\ (run[p].pc = "alert" /\ run'[p].pc = "post") => alerts' = alerts]_vars

\* a step in which p's monitoring run returns
RunCompletes(p) == run[p].pc # "idle" /\ run'[p].pc = "idle"

\* the SUMMARY rows of one run
SummaryRows(log, id) ==
    {i \in 1..Len(log) : log[i].alert_type = "SUMMARY" /\ log[i].run = id}

\* C12: with alerting enabled, a run that iterates customers creates exactly
\* one SUMMARY row, as its last write, and none before its end; also when
\* the summary is rate-limited or the webhook does not validate.
C12_OneSummaryAtEnd ==
    [][\A p \in Procs :
        /\ (RunCompletes(p) /\ (settings[p].enabled \/ run[p].pc = "post")) =>
              /\ Cardinality(SummaryRows(alerts', run[p].id)) = 1
              /\ Len(alerts') = Len(alerts) + 1
              /\ Row.alert_type = "SUMMARY"
              /\ Row.run = run[p].id
        /\ run'[p].pc # "idle" => SummaryRows(alerts', run'[p].id) = {}]_vars

\* C13: with the ENABLED flag false a call of send_discord_alert or of
\* send_monitoring_summary returns at once: it sends no HTTP request and
\* creates no row; the run still writes the snapshot of a scored customer.
C13_DisabledIsSilent ==
    [][\A p \in Procs :
        /\ (/\ run[p].pc \in {"alert", "summary"}
            /\ ~settings[p].enabled
            /\ run'[p] # run[p]) =>
              /\ http' = "none"
              /\ alerts' = alerts
              /\ history' = history
              /\ run'[p] = Returned(run[p])
        /\ (Writes(p) /\ ~settings[p].enabled) =>
              /\ Len(history'[run[p].customer]) = Len(history[run[p].customer]) + 1
              /\ alerts' = alerts]_vars

\* with alerting disabled a run is past a high-risk customer whose snapshot
\* it wrote, and no row of the run exists
C13_Witness ==
    \E p \in Procs : \E c \in Customers :
        /\ ~settings[p].enabled
        /\ run[p].pc = "score"
        /\ http = "none"
        /\ Len(history[c]) > 0
        /\ history[c][Len(history[c])].run = run[p].id
        /\ history[c][Len(history[c])].is_high_risk
        /\ \A i \in 1..Len(alerts) : alerts[i].run # run[p].id

\* a step in which scoring the next customer of p's run fails
Skips(p) == run[p].pc = "score" /\ run'[p] # run[p] /\ run'[p].pc # "write"

\* C14: a customer whose encoding, scaling or prediction fails is skipped:
\* no snapshot, no alert row, no request; the run goes on with the next
\* customer, or with the summary after the last one, and nothing that the
\* processing of another customer reads has changed.
C14_FailedCustomerSkipped ==
    [][\A p \in Procs :
        /\ Skips(p) =>
              /\ history' = history
              /\ alerts' = alerts
              /\ settings' = settings
              /\ http' = "none"
              /\ run'[p].id = run[p].id
              /\ run'[p].todo = Tail(run[p].todo)
              /\ run'[p].pc = IF Tail(run[p].todo) = <<>> THEN "summary" ELSE "score"
              /\ run'[p].high_risk_count = run[p].high_risk_count
              /\ run'[p].significant_increases = run[p].significant_increases
        /\ (run[p].pc = "score" /\ run'[p].pc = "write") =>
              /\ run'[p].customer = Head(run[p].todo)
              /\ run'[p].previous_prob =
                    PreviousProbability(history[Head(run[p].todo)])]_vars

\* the second customer of a run has been scored after the first was skipped
C14_Witness ==
    \E p \in Procs :
        /\ run[p].pc = "write"
        /\ run[p].customer = 2
        /\ run[p].total_checked = 2
        /\ \A i \in 1..Len(history[1]) : history[1][i].run # run[p].id

SendFails(p) ==
    /\ run'[p] # run[p]
    /\ \/ run[p].pc \in {"alert", "summary"} /\ run'[p].pc # "post"
       \/ run[p].pc = "post" /\ run'[p].pc # "post" /\ ~Row.was_sent

\* C16: a send that fails on validation, on the rate limit or in delivery
\* does not abort the run: the snapshots stay, after a customer alert the
\* run goes on with the next customer or the summary, and after the summary
\* the run returns its completion message.
C16_SendFailureNeverAborts ==
    [][\A p \in Procs :
        SendFails(p) =>
            /\ history' = history
            /\ IF run[p].customer # 0
               THEN /\ history[run[p].customer][Len(history[run[p].customer])].run
                          = run[p].id
                    /\ run'[p].id = run[p].id
                    /\ run'[p].todo = Tail(run[p].todo)
                    /\ run'[p].pc = IF Tail(run[p].todo) = <<>>
                                    THEN "summary" ELSE "score"
                    /\ run'[p].total_checked = run[p].total_checked
                    /\ run'[p].high_risk_count = run[p].high_risk_count
               ELSE /\ run'[p].pc = "idle"
                    /\ run'[p].result = "completed"]_vars

\* a run scores its next customer after an alert of it failed in delivery
C16_Witness ==
    \E p \in Procs : \E i \in 1..Len(alerts) :
        /\ run[p].pc = "score"
        /\ alerts[i].run = run[p].id
        /\ ~alerts[i].was_sent
        /\ alerts[i].error_message = "status"

\* h is an initial part of g
Prefix(h, g) == Len(h) <= Len(g) /\ \A i \in 1..Len(h) : g[i] = h[i]

\* C17: a run only appends to the snapshots: every step keeps every
\* existing row of every customer as it is, a step that ends the scoring of
\* a customer with success adds exactly one row, for that customer, and no
\* other step adds one.
C17_SnapshotsAppendOnly ==
    [][/\ \A c \in Customers : Prefix(history[c], history'[c])
       /\ \A p \in Procs :
            Writes(p) =>
                /\ Len(history'[run[p].customer]) = Len(history[run[p].customer]) + 1
                /\ NewRow(p).run = run[p].id
                /\ \A c \in Customers \ {run[p].customer} : history'[c] = history[c]
       /\ history' # history => \E p \in Procs : Writes(p)]_vars

\* both customers have a row of each of two runs
C17_Witness ==
    \A c \in Customers :
        /\ Len(history[c]) = 2
        /\ history[c][1].run # history[c][2].run

\* C18: the AlertHistory rows are an append-only log: whatever the service
\* does, every row that exists stays, with its fields.
C18_AlertLogAppendOnly ==
    [][Prefix(alerts, alerts')]_vars

\* C19: the row of a per-customer alert has kind HIGH_RISK when the
\* customer's probability is above the high-risk threshold and RISK_INCREASE
\* otherwise, and was_sent is true only when the webhook took the message.
C19_KindMatchesRisk ==
    [][\A p \in Procs :
        (/\ run[p].customer # 0
         /\ run'[p] # run[p]
         /\ Len(alerts') = Len(alerts) + 1) =>
            /\ Row.customer = run[p].customer
            /\ Row.alert_type = IF run[p].probability > settings[p].high
                                THEN "HIGH_RISK" ELSE "RISK_INCREASE"
            /\ Row.was_sent => run[p].pc = "post" /\ http' = "POST"]_vars

\* the snapshots a run has written
RowsOfRun(id) ==
    {row \in UNION {{history[c][i] : i \in 1..Len(history[c])} : c \in Customers} :
        row.run = id}

\* C20: the thresholds of a run are those in force at its start: within
\* one run, is_high_risk is decided against one threshold, so of two rows
\* of the run the one of the greater or equal probability is high-risk if
\* the other is.
C20_ConfigSnapshotAtRunStart ==
    \A id \in 1..MaxRuns : \A r1, r2 \in RowsOfRun(id) :
        (r1.is_high_risk /\ r2.churn_probability >= r1.churn_probability)
            => r2.is_high_risk

\* C21: under any interleaving of two runs, the previous_probability of
\* every snapshot is the churn_probability of the snapshot just before it
\* in the customer's history, and null for the first.
C21_PreviousIsPrecedingRow ==
    \A c \in Customers : \A i \in 1..Len(history[c]) :
        history[c][i].previous_probability =
            IF i = 1 THEN None ELSE Some(history[c][i - 1].churn_probability)

\* a step in which process p starts a monitoring run
Starts(p) == run[p].pc = "idle" /\ run'[p].pc = "score"

\* C22: a run that starts when an AlertConfiguration row is stored decides
\* with the enabled flag, webhook URL and thresholds of the latest stored
\* row.
C22_RunUsesStoredConfig ==
    [][\A p \in Procs :
        (Starts(p) /\ config # <<>>)
            => settings[p] = RowData(config[Len(config)])]_vars

\* C23: after any sequence of POSTs to manage_alert_config, two handled at
\* the same time included, the store holds at most one AlertConfiguration
\* row.
C23_AtMostOneRow == Len(config) <= 1

\* what the request being saved by thread k posted: acceptable when the URL
\* is a URL and both thresholds are numbers
Posted(k) == handler[k].raw[1]
Acceptable(raw) == raw.url # "not_a_url" /\ raw.high # None /\ raw.inc # None
Values(raw) == [enabled |-> raw.enabled, url |-> raw.url, high |-> raw.high[1], inc |-> raw.inc[1]]

\* thread k answers a request in this step
Saves(k) == handler[k].pc = "save" /\ handler'[k].pc = "idle"
Serves(k) == handler[k].pc = "idle" /\ handler'[k] # handler[k]

\* C24: a configuration write commits if and only if it validates. An
\* acceptable POST is answered 200 with the posted values, which are then
\* the stored row (what a following GET returns: a GET answers 200 with the
\* latest stored row) and the settings of the web process; any other POST
\* is answered 400 and leaves the stored rows and the settings as they
\* were.
C24_CommitIffValid ==
    [][\A k \in Handlers :
        /\ (Saves(k) /\ Acceptable(Posted(k))) =>
                /\ handler'[k].status = 200
                /\ handler'[k].body # None
                /\ RowData(handler'[k].body[1]) = Values(Posted(k))
                /\ config' # <<>>
                /\ config'[Len(config')] = handler'[k].body[1]
                /\ settings'["web"] = Values(Posted(k))
        /\ (Saves(k) /\ ~Acceptable(Posted(k))) =>
                /\ handler'[k].status = 400
                /\ config' = config
                /\ settings' = settings
        /\ (Serves(k) /\ handler'[k].user = "admin" /\ handler'[k].method = "GET"
                /\ config # <<>>) =>
                /\ handler'[k].status = 200
                /\ handler'[k].body = Some(config[Len(config)])]_vars

\* a rejected POST has been answered while a row written by an accepted
\* POST is stored, and a GET has returned a stored row
C24_Witness ==
    /\ config # <<>>
    /\ \E k \in Handlers :
        /\ handler[k].pc = "idle" /\ handler[k].method = "POST"
        /\ handler[k].status = 400 /\ handler[k].raw[1].url = "not_a_url"
    /\ \E k \in Handlers :
        /\ handler[k].method = "GET" /\ handler[k].status = 200
        /\ handler[k].body = Some(config[Len(config)])

\* C25: only administrators read or change the alert configuration. A
\* request without authentication is answered 401 and one of a user who is
\* not an administrator 403, neither gets a body nor reaches the save,
\* and neither changes the rows or the settings; an administrator's GET is
\* answered 200 with the stored webhook URL.
C25_AdminOnly ==
    [][\A k \in Handlers :
        /\ handler[k].pc = "save" => handler[k].user = "admin"
        /\ (Serves(k) /\ handler'[k].user # "admin") =>
                /\ handler'[k].status = IF handler'[k].user = "anonymous" THEN 401 ELSE 403
                /\ handler'[k].pc = "idle"
                /\ handler'[k].body = None
                /\ config' = config
                /\ settings' = settings
        /\ (Serves(k) /\ handler'[k].user = "admin" /\ handler'[k].method = "GET"
                /\ config # <<>>) =>
                /\ handler'[k].status = 200
                /\ handler'[k].body # None
                /\ handler'[k].body[1].url = config[Len(config)].url]_vars

\* with a row stored, one thread has refused an anonymous request and the
\* other a user who is not an administrator
C25_Witness ==
    /\ config # <<>>
    /\ \E j, k \in Handlers :
        /\ handler[j].user = "anonymous" /\ handler[j].status = 401
        /\ handler[k].user = "user" /\ handler[k].status = 403

\* the strings monitor_customer_churn returns
ResultStrings == {"completed", "error", "model_unavailable", "no_customers"}

\* C26: every monitoring run that was started ends by returning one of
\* its result strings to its caller; a run that returns its completion
\* message has iterated over every customer, and a run that returns the
\* error string was stopped by an exception raised before the first
\* customer or after the last.
C26_RunTerminates ==
    /\ \A p \in Procs :
            (run[p].pc # "idle") ~> (run[p].pc = "idle" /\ run[p].result \in ResultStrings)
    /\ [][\A p \in Procs :
            /\ run'[p].pc \in {"idle", "score", "write", "alert", "post", "summary"}
            /\ RunCompletes(p) =>
                /\ run'[p].result \in {"completed", "error"}
                /\ run'[p].result = "completed" =>
                        run[p].todo = <<>> /\ run[p].total_checked = Cardinality(customers)
                /\ run'[p].result = "error" =>
                        run[p].total_checked \in {0, Cardinality(customers)}]_vars

\* one run has returned the error string and the other its completion
\* message
C26_Witness ==
    \E p, q \in Procs :
        /\ run[p].pc = "idle" /\ run[p].result = "error"
        /\ run[q].pc = "idle" /\ run[q].result = "completed"

\* the snapshot a step has added for customer c
Added(c) == history'[c][Len(history'[c])]

\* C27: the counters of a run count what the run has iterated and written.
\* total_checked goes up by one with every customer the loop takes up;
\* high_risk_count goes up by one exactly in the steps that write a
\* snapshot with is_high_risk = true, and significant_increases exactly in
\* those that write one whose risk_change exceeds the threshold; neither
\* goes up in a step that writes no snapshot.
C27_CountersCountSnapshots ==
    [][\A p \in Procs :
        (run[p].pc # "idle" /\ run'[p].pc # "idle" /\ run'[p] # run[p]) =>
            LET c == run[p].customer
                wrote == c \in Customers /\ Len(history'[c]) = Len(history[c]) + 1
            IN
            /\ run'[p].total_checked =
                    run[p].total_checked + (IF run[p].pc = "score" THEN 1 ELSE 0)
            /\ run'[p].high_risk_count =
                    run[p].high_risk_count
                        + (IF wrote /\ Added(c).is_high_risk THEN 1 ELSE 0)
            /\ run'[p].significant_increases =
                    run[p].significant_increases
                        + (IF /\ wrote
                              /\ Added(c).risk_change # None
                              /\ ChangeExceeds(Added(c).risk_change, settings[p].inc)
                           THEN 1 ELSE 0)]_vars

\* C28: a bulk_delete_customers request of at most 1000 distinct ids
\* reports as deleted_count the number of requested ids that existed,
\* deleted_count + not_found_count is the length of the list, and none of
\* the requested ids exists afterwards; a longer request is answered 400
\* and deletes nothing.
C28_BulkDeleteCounts ==
    [][handler'[1] # handler[1] =>
        LET req == handler'[1].raw[1]
            len == Cardinality(req.ids) + req.unknown
        IN
        IF len <= MaxBulk
        THEN /\ handler'[1].status = 200
             /\ handler'[1].body[1].deleted_count = Cardinality(req.ids \cap customers)
             /\ handler'[1].body[1].deleted_count + handler'[1].body[1].not_found_count = len
             /\ customers' \cap req.ids = {}
        ELSE /\ handler'[1].status = 400
             /\ customers' = customers
             /\ history' = history
             /\ alerts' = alerts]_vars

\* the rows of a file with an existing, or with a new, customer id
RowsOfExisting(rows) == {i \in 1..Len(rows) : rows[i].CustomerId \in customers}
RowsOfNew(rows) == {i \in 1..Len(rows) : rows[i].CustomerId \notin customers}
LastRowOf(rows, c) ==
    rows[CHOOSE i \in 1..Len(rows) :
            /\ rows[i].CustomerId = c
            /\ \A j \in 1..Len(rows) : rows[j].CustomerId = c => j <= i]
InFile(rows, c) == \E i \in 1..Len(rows) : rows[i].CustomerId = c

\* C29: import_csv is all-or-nothing and partitions its rows. An import
\* fails exactly when a new customer id appears twice in the file; then
\* the answer is an error and no customer row is created or changed.
\* Otherwise created + updated + skipped is the number of rows, the rows
\* of existing ids are all updated (update_existing) or all skipped and
\* left unchanged, every new id is created with the data of its row, and
\* customers that are not in the file are untouched.
C29_ImportAllOrNothing ==
    [][handler'[1].raw # None /\ handler'[1] # handler[1] =>
        LET rows == handler'[1].raw[1].rows
            update_existing == handler'[1].raw[1].update_existing
            twice == \E i, j \in RowsOfNew(rows) :
                        i # j /\ rows[i].CustomerId = rows[j].CustomerId
        IN
        IF twice
        THEN /\ handler'[1].status = 400
             /\ customers' = customers
             /\ surname' = surname
        ELSE LET body == handler'[1].body[1] IN
             /\ handler'[1].status = 200
             /\ body.created + body.updated + body.skipped = Len(rows)
             /\ body.created = Cardinality(RowsOfNew(rows))
             /\ body.updated = IF update_existing
                                THEN Cardinality(RowsOfExisting(rows)) ELSE 0
             /\ body.skipped = IF update_existing
                                THEN 0 ELSE Cardinality(RowsOfExisting(rows))
             /\ customers' = customers \cup {rows[i].CustomerId : i \in 1..Len(rows)}
             /\ \A c \in CsvIds :
                    surname'[c] =
                        IF InFile(rows, c) /\ (c \notin customers \/ update_existing)
                        THEN LastRowOf(rows, c).Surname
                        ELSE surname[c]]_vars

\* an import that would have updated an existing customer has failed
C29_Witness ==
    /\ handler[1].status = 400
    /\ handler[1].raw # None
    /\ handler[1].raw[1].update_existing
    /\ \E i \in 1..Len(handler[1].raw[1].rows) :
            LET row == handler[1].raw[1].rows[i] IN
            row.CustomerId \in customers /\ row.Surname # surname[row.CustomerId]

\* the accuracy of the stored best metrics, 0 when there are none
StoredBest(m) == IF m.best = None THEN 0 ELSE m.best[1].test_accuracy

\* C30: across a sequence of trainings, the best model and metrics are
\* replaced only by a run whose test accuracy is strictly greater than the
\* stored one, and then by that run's model, so the stored best accuracy
\* never decreases; a run that saves its model replaces the latest model
\* and metrics; and the training status a run writes has is_best true
\* exactly when that run replaced the best.
C30_BestOnlyImproves ==
    [][/\ StoredBest(models') >= StoredBest(models)
       /\ models'.best # models.best =>
            /\ models'.best[1].test_accuracy > StoredBest(models)
            /\ models'.best = models'.latest
       /\ models'.latest # models.latest =>
            /\ models'.latest[1].model = models'.trainings
            /\ (models'.latest[1].test_accuracy > StoredBest(models))
                    <=> (models'.best = models'.latest)
       /\ models'.training_status # models.training_status =>
            /\ models'.latest[1].model = models'.training_status[1].training
            /\ models'.training_status[1].is_best <=> (models'.best # models.best)
            /\ models'.training_status[1].previous_best = StoredBest(models)]_vars

\* a run as accurate as the stored best has left the best in place and
\* written is_best = false
C30_Witness ==
    /\ models.best # None /\ models.latest # None /\ models.training_status # None
    /\ models.latest[1].test_accuracy = models.best[1].test_accuracy
    /\ models.latest[1].model # models.best[1].model
    /\ models.training_status[1].training = models.latest[1].model
    /\ ~models.training_status[1].is_best

====
